---- MODULE Spec2Model ----
(***************************************************************************)
(* Take-home assignment generator: the four-phase generation pipeline      *)
(* (backend/core/generator.py), its quality gates                          *)
(* (backend/core/quality_gates.py), the pydantic schemas the pipeline      *)
(* builds (backend/api/schemas.py), the retrying capability client         *)
(* (backend/clients/gemini_client.py) and the status mapping of the        *)
(* generate route (backend/api/routes.py).                                 *)
(*                                                                         *)
(* Representation of the data:                                             *)
(*  - a free text whose only observed property is emptiness after strip()  *)
(*    is a sequence over the alphabet {" ", "x"};                          *)
(*  - the business context of a scope is the pair (number of characters,   *)
(*    set of generic terms occurring in its lower-cased text);             *)
(*  - a list of free texts whose only observed property is its length is   *)
(*    that length;                                                         *)
(*  - a Requirement is its estimated_time_minutes;                         *)
(*  - time_budget_hours is counted in quarter hours, so that               *)
(*    time_budget_hours * 60 is an exact number of minutes (as it is in    *)
(*    binary floating point for these values);                             *)
(*  - a rubric weight is counted in units of 1/WeightUnit, a power of two, *)
(*    so that the float sum of the weights is exact.                       *)
(***************************************************************************)
EXTENDS Integers, Sequences, FiniteSets, TLC

VARIABLES
    input,          \* the AssignmentInput of the request
    pc,             \* position of generate(): the phase about to run, or "done"
    calls,          \* phases for which generate_json was invoked, in order
    attempts,       \* outcomes of the attempts of the most recent generate_json call
    call_status,    \* "none", "running", "returned", "GeminiAPIError", "RetryError"
    context,        \* JobContext returned by phase 1
    scope,          \* AssignmentScope returned by phase 2
    validation,     \* ScopeValidation returned by phase 3
    rubric,         \* EvaluatorGuide returned by phase 4a
    time_breakdown, \* TimeBreakdown returned by phase 4b
    reported_valid, \* breakdown_valid as the capability answered it in phase 4b
    gate_result,    \* the ValidationResult a quality gate returned last
    raised,         \* the exception kind that left generate(), or "none"
    cause,          \* the exception kind or gate failure that the phase wrapped
    result,         \* the GeneratedAssignment generate() returned
    http_status,    \* status code the generate route answered with, 0 before
    requests        \* the requests in progress at the same time, one record each

vars == <<input, pc, calls, attempts, call_status, context, scope, validation,
          rubric, time_breakdown, reported_valid, gate_result, raised, cause,
          result, http_status, requests>>

\* ------------------------------------------------------------------------
\* Bounds of the model
\* ------------------------------------------------------------------------
MaxMustHave == 8
MaxRubricItems == 8
MaxResponsibilities == 3

\* ------------------------------------------------------------------------
\* Program constants
\* ------------------------------------------------------------------------
StopAfterAttempt == 3
MinResponsibilities == 3
TimeRatioLowPct == 75
TimeRatioHighPct == 125
MinBusinessContext == 100
LongBusinessContext == 2000
MinMustHave == 3
ManyMustHave == 7
MinConstraints == 2
MinRubricItems == 3
ManyRubricItems == 7
WeightSumTolerancePct == 1
SmallWeightPct == 5
RequirementsMinItems == 3
RequirementsMaxItems == 7
BriefMinLength == 100
BriefMaxLength == 2000
RubricMinItems == 3
RubricMaxItems == 7
BreakdownTolerance == 5
QuarterHourMinutes == 15
MinBudgetQuarters == 8
MaxBudgetQuarters == 32
WeightUnit == 128
MustHaveTargetPct == 60
NiceToHaveTargetPct == 20
BufferTargetPct == 20
JobTitleMaxLength == 200
JobDescriptionMinLength == 100
JobDescriptionMaxLength == 5000

\* ------------------------------------------------------------------------
\* Helpers
\* ------------------------------------------------------------------------
None == [is_none |-> TRUE]

RECURSIVE SumSeq(_)
SumSeq(s) == IF s = <<>> THEN 0 ELSE Head(s) + SumSeq(Tail(s))

Abs(x) == IF x < 0 THEN -x ELSE x

RECURSIVE LStrip(_)
LStrip(s) == IF s # <<>> /\ Head(s) = " " THEN LStrip(Tail(s)) ELSE s

RECURSIVE RStrip(_)
RStrip(s) ==
    IF s # <<>> /\ s[Len(s)] = " " THEN RStrip(SubSeq(s, 1, Len(s) - 1)) ELSE s

\* str.strip()
Strip(s) == RStrip(LStrip(s))

\* Blank without the strip(): a whitespace-only text is taken as filled in
Blank_no_strip(s) == s = <<>>

\* `not s or not s.strip()` for a str
Blank(s) == s = <<>> \/ Strip(s) = <<>>

Issue(msg, item) == [msg |-> msg, item |-> item]

\* the indices 1..n that lie in S, in increasing order
RECURSIVE IdxIn(_, _)
IdxIn(n, S) ==
    IF n = 0 THEN <<>> ELSE IdxIn(n - 1, S) \o (IF n \in S THEN <<n>> ELSE <<>>)

\* one message per index of idx, in order
PerItem(msg, idx) == [k \in 1..Len(idx) |-> Issue(msg, idx[k])]

\* ValidationResult that also fails on warnings
ValidationResult_warnings_fail(issues, warnings) ==
    [is_none |-> FALSE, passed |-> Len(issues) = 0 /\ Len(warnings) = 0,
     issues |-> issues, warnings |-> warnings]

\* ValidationResult(passed=len(issues) == 0, issues=issues, warnings=warnings)
ValidationResult(issues, warnings) ==
    [is_none |-> FALSE, passed |-> Len(issues) = 0,
     issues |-> issues, warnings |-> warnings]

\* ------------------------------------------------------------------------
\* Quality gates (backend/core/quality_gates.py)
\* ------------------------------------------------------------------------

\* validate_context_extraction that records the missing collaboration
\* patterns as an issue
validate_context_extraction_collaboration_required(ctx) ==
    LET issues ==
            (IF ctx.responsibilities < MinResponsibilities
                THEN <<Issue("Insufficient responsibilities extracted", 0)>>
                ELSE <<>>)
            \o (IF Blank(ctx.business_domain)
                THEN <<Issue("Business domain not identified", 0)>> ELSE <<>>)
            \o (IF ctx.daily_technologies = 0
                THEN <<Issue("Daily technologies not specified", 0)>> ELSE <<>>)
            \o (IF ctx.collaboration_patterns.is_none
                   \/ ctx.collaboration_patterns.text = <<>>
                THEN <<Issue("Collaboration patterns not identified", 0)>>
                ELSE <<>>)
    IN ValidationResult(issues, <<>>)

\* validate_context_extraction(context)
validate_context_extraction(ctx) ==
    LET issues ==
            (IF ctx.responsibilities < MinResponsibilities
                THEN <<Issue("Insufficient responsibilities extracted", 0)>>
                ELSE <<>>)
            \o (IF Blank(ctx.business_domain)
                THEN <<Issue("Business domain not identified", 0)>> ELSE <<>>)
            \o (IF ctx.daily_technologies = 0
                THEN <<Issue("Daily technologies not specified", 0)>> ELSE <<>>)
        warnings ==
            IF ctx.collaboration_patterns.is_none
               \/ ctx.collaboration_patterns.text = <<>>
                THEN <<Issue("Collaboration patterns not identified", 0)>>
                ELSE <<>>
    IN ValidationResult(issues, warnings)

\* AssignmentScope.all_requirements
all_requirements(sc) == sc.must_have \o sc.nice_to_have

\* expected_minutes = time_budget_hours * 60
expected_minutes(budget_quarters) == budget_quarters * QuarterHourMinutes

\* the tolerance test with strict bounds
TimeRatioInRange_strict(total_time, expected) ==
    /\ TimeRatioLowPct * expected < 100 * total_time
    /\ 100 * total_time < TimeRatioHighPct * expected

\* a tolerance of 15 % around the budget
TimeRatioInRange_narrow(total_time, expected) ==
    /\ 85 * expected <= 100 * total_time
    /\ 100 * total_time <= 115 * expected

\* 0.75 <= total_time / expected_minutes <= 1.25
TimeRatioInRange(total_time, expected) ==
    /\ TimeRatioLowPct * expected <= 100 * total_time
    /\ 100 * total_time <= TimeRatioHighPct * expected

\* the generic terms, in the order the loop tests them
generic_terms == <<"bookstore", "todo", "to-do", "blog", "e-commerce store">>

\* the loop over generic_terms stops at the first term found
GenericTermWarning(bc) ==
    IF \E i \in 1..Len(generic_terms) : generic_terms[i] \in bc.terms
        THEN <<Issue("Business context may be too generic",
                     CHOOSE i \in 1..Len(generic_terms) :
                        /\ generic_terms[i] \in bc.terms
                        /\ \A j \in 1..(i - 1) : generic_terms[j] \notin bc.terms)>>
        ELSE <<>>

\* the length test with an inclusive bound
ContextTooBrief_inclusive(length) == length <= MinBusinessContext

\* len(scope.business_context) < 100
ContextTooBrief(length) == length < MinBusinessContext

\* len(scope.must_have) < 3
TooFewMustHave(count) == count < MinMustHave

\* validate_scope of a gate that keeps its issues list between calls
validate_scope_keeps_issues(sc, budget_quarters) ==
    LET total_time == SumSeq(all_requirements(sc))
        kept == IF gate_result.is_none THEN <<>> ELSE gate_result.issues
        issues ==
            kept
            \o (IF ~TimeRatioInRange(total_time, expected_minutes(budget_quarters))
                THEN <<Issue("Time mismatch", 0)>> ELSE <<>>)
            \o (IF ContextTooBrief(sc.business_context.len)
                THEN <<Issue("Business context too brief", 0)>> ELSE <<>>)
            \o (IF TooFewMustHave(Len(sc.must_have))
                THEN <<Issue("Too few must-have requirements", 0)>> ELSE <<>>)
        warnings ==
            (IF sc.business_context.len > LongBusinessContext
                THEN <<Issue("Business context quite long", 0)>> ELSE <<>>)
            \o (IF Len(sc.must_have) > ManyMustHave
                THEN <<Issue("Many must-have requirements", 0)>> ELSE <<>>)
            \o (IF sc.constraints < MinConstraints
                THEN <<Issue("Few constraints specified", 0)>> ELSE <<>>)
            \o GenericTermWarning(sc.business_context)
    IN ValidationResult(issues, warnings)

\* validate_scope(scope, time_budget_hours)
validate_scope(sc, budget_quarters) ==
    LET total_time == SumSeq(all_requirements(sc))
        issues ==
            (IF ~TimeRatioInRange(total_time, expected_minutes(budget_quarters))
                THEN <<Issue("Time mismatch", 0)>> ELSE <<>>)
            \o (IF ContextTooBrief(sc.business_context.len)
                THEN <<Issue("Business context too brief", 0)>> ELSE <<>>)
            \o (IF TooFewMustHave(Len(sc.must_have))
                THEN <<Issue("Too few must-have requirements", 0)>> ELSE <<>>)
        warnings ==
            (IF sc.business_context.len > LongBusinessContext
                THEN <<Issue("Business context quite long", 0)>> ELSE <<>>)
            \o (IF Len(sc.must_have) > ManyMustHave
                THEN <<Issue("Many must-have requirements", 0)>> ELSE <<>>)
            \o (IF sc.constraints < MinConstraints
                THEN <<Issue("Few constraints specified", 0)>> ELSE <<>>)
            \o GenericTermWarning(sc.business_context)
    IN ValidationResult(issues, warnings)

\* abs(weight_sum - 1.0) > 0.01
WeightSumOff(weight_sum) ==
    100 * Abs(weight_sum - WeightUnit) > WeightSumTolerancePct * WeightUnit

\* the warnings of the last loop of validate_rubric for items 1..n
RECURSIVE ExpectationWarnings(_, _)
ExpectationWarnings(rb, n) ==
    IF n = 0 THEN <<>>
    ELSE ExpectationWarnings(rb, n - 1)
         \o (IF Blank(rb[n].junior_expectation)
                THEN <<Issue("empty junior expectation", n)>> ELSE <<>>)
         \o (IF Blank(rb[n].mid_expectation)
                THEN <<Issue("empty mid expectation", n)>> ELSE <<>>)
         \o (IF Blank(rb[n].senior_expectation)
                THEN <<Issue("empty senior expectation", n)>> ELSE <<>>)

\* validate_rubric(rubric)
validate_rubric(rb) ==
    LET n == Len(rb)
        weight_sum == SumSeq([i \in 1..n |-> rb[i].weight])
        issues ==
            (IF n < MinRubricItems
                THEN <<Issue("Too few rubric items", 0)>> ELSE <<>>)
            \o (IF WeightSumOff(weight_sum)
                THEN <<Issue("Rubric weights sum", 0)>> ELSE <<>>)
            \o PerItem("invalid weight",
                       IdxIn(n, {i \in 1..n : rb[i].weight <= 0}))
            \o PerItem("empty scoring guide",
                       IdxIn(n, {i \in 1..n : Blank(rb[i].scoring_guide)}))
        warnings ==
            (IF n > ManyRubricItems
                THEN <<Issue("Many rubric items", 0)>> ELSE <<>>)
            \o PerItem("very small weight",
                       IdxIn(n, {i \in 1..n :
                                    /\ 0 < rb[i].weight
                                    /\ 100 * rb[i].weight < SmallWeightPct * WeightUnit}))
            \o ExpectationWarnings(rb, n)
    IN ValidationResult(issues, warnings)

\* check_seniority_match that looks at the requirement count alone
check_seniority_match_count_only(sc, seniority_level) ==
    LET requirement_count == Len(sc.must_have)
    IN CASE seniority_level = "junior" ->
                3 <= requirement_count /\ requirement_count <= 4
         [] seniority_level = "mid" ->
                4 <= requirement_count /\ requirement_count <= 5
         [] seniority_level = "senior" ->
                5 <= requirement_count /\ requirement_count <= 6
         [] seniority_level = "staff" ->
                6 <= requirement_count /\ requirement_count <= 7
         [] OTHER -> TRUE

\* check_seniority_match(scope, seniority_level)
check_seniority_match(sc, seniority_level) ==
    LET requirement_count == Len(sc.must_have)
        total_time == SumSeq(all_requirements(sc))
    IN CASE seniority_level = "junior" ->
                /\ 3 <= requirement_count /\ requirement_count <= 4
                /\ 120 <= total_time /\ total_time <= 240
         [] seniority_level = "mid" ->
                /\ 4 <= requirement_count /\ requirement_count <= 5
                /\ 180 <= total_time /\ total_time <= 300
         [] seniority_level = "senior" ->
                /\ 5 <= requirement_count /\ requirement_count <= 6
                /\ 240 <= total_time /\ total_time <= 420
         [] seniority_level = "staff" ->
                /\ 6 <= requirement_count /\ requirement_count <= 7
                /\ 360 <= total_time /\ total_time <= 540
         [] OTHER -> TRUE

\* generate_scope_warnings(scope, seniority_level, time_budget_hours)
generate_scope_warnings(sc, seniority_level, budget_quarters) ==
    LET must_have_time == SumSeq(sc.must_have)
        total_time == SumSeq(all_requirements(sc))
    IN  (IF ~check_seniority_match(sc, seniority_level)
            THEN <<Issue("Assignment complexity may not match level", 0)>>
            ELSE <<>>)
        \o (IF Len(sc.must_have) > 6
            THEN <<Issue("Many must-have requirements, candidates may struggle", 0)>>
            ELSE <<>>)
        \o (IF Len(sc.nice_to_have) = 0
            THEN <<Issue("No nice-to-have requirements", 0)>> ELSE <<>>)
        \o (IF total_time > 0 /\ 2 * must_have_time < total_time
            THEN <<Issue("Must-have requirements only account for", 0)>>
            ELSE <<>>)

\* ------------------------------------------------------------------------
\* Schemas (backend/api/schemas.py): what construction accepts
\* ------------------------------------------------------------------------

\* AssignmentInput without the lower bound of the time budget
AssignmentInputAccepts_no_lower_bound(raw) ==
    /\ raw.job_title >= 1 /\ raw.job_title <= JobTitleMaxLength
    /\ raw.job_description >= JobDescriptionMinLength
    /\ raw.job_description <= JobDescriptionMaxLength
    /\ raw.tech_stack >= 1
    /\ raw.time_budget <= MaxBudgetQuarters
    /\ raw.seniority_level \in {"junior", "mid", "senior", "staff"}

\* AssignmentInput(...): job_title and job_description are given by their
\* length, tech_stack by its number of items
AssignmentInputAccepts(raw) ==
    /\ raw.job_title >= 1 /\ raw.job_title <= JobTitleMaxLength
    /\ raw.job_description >= JobDescriptionMinLength
    /\ raw.job_description <= JobDescriptionMaxLength
    /\ raw.tech_stack >= 1
    /\ raw.time_budget >= MinBudgetQuarters
    /\ raw.time_budget <= MaxBudgetQuarters
    /\ raw.seniority_level \in {"junior", "mid", "senior", "staff"}

\* JobContext(**response): the four fields, no constraint on their values
JobContextAccepts(r) == r.well_formed

JobContext(r) ==
    [is_none |-> FALSE,
     responsibilities |-> r.responsibilities,
     business_domain |-> r.business_domain,
     daily_technologies |-> r.daily_technologies,
     collaboration_patterns |-> r.collaboration_patterns]

\* Requirement(**req): estimated_time_minutes gt=0
RequirementAccepts(minutes) == minutes > 0

\* the scope response parses: every Requirement is accepted and the keys exist
AssignmentScopeAccepts(r) ==
    /\ r.well_formed
    /\ \A i \in 1..Len(r.must_have) : RequirementAccepts(r.must_have[i])
    /\ \A i \in 1..Len(r.nice_to_have) : RequirementAccepts(r.nice_to_have[i])

AssignmentScope(r) ==
    [is_none |-> FALSE,
     business_context |-> r.business_context,
     must_have |-> r.must_have,
     nice_to_have |-> r.nice_to_have,
     constraints |-> r.constraints]

\* Requirements(...): must_have min_items=3, max_items=7
RequirementsAccepts(sc) ==
    /\ Len(sc.must_have) >= RequirementsMinItems
    /\ Len(sc.must_have) <= RequirementsMaxItems

\* CandidateBrief(...): business_context min_length=100, max_length=2000
CandidateBriefAccepts(sc) ==
    /\ sc.business_context.len >= BriefMinLength
    /\ sc.business_context.len <= BriefMaxLength

\* RubricItem(**item): weight ge=0.0, le=1.0
RubricItemAccepts(item) == item.weight >= 0 /\ item.weight <= WeightUnit

\* EvaluatorGuide without max_items
EvaluatorGuideAccepts_no_max(items) ==
    /\ Len(items) >= RubricMinItems
    /\ ~(100 * Abs(SumSeq([i \in 1..Len(items) |-> items[i].weight]) - WeightUnit)
            > WeightSumTolerancePct * WeightUnit)

\* EvaluatorGuide(...): scoring_rubric min_items=3, max_items=7 and
\* validate_weights_sum_to_one
EvaluatorGuideAccepts(items) ==
    /\ Len(items) >= RubricMinItems
    /\ Len(items) <= RubricMaxItems
    /\ ~(100 * Abs(SumSeq([i \in 1..Len(items) |-> items[i].weight]) - WeightUnit)
            > WeightSumTolerancePct * WeightUnit)

EvaluatorGuide(items) == [is_none |-> FALSE, scoring_rubric |-> items]

\* TimeBreakdown(**response): total gt=0, core gt=0, the others ge=0
TimeBreakdownAccepts(r) ==
    /\ r.well_formed
    /\ r.total_minutes > 0
    /\ r.setup_minutes >= 0
    /\ r.core_implementation_minutes > 0
    /\ r.testing_minutes >= 0
    /\ r.documentation_minutes >= 0
    /\ r.buffer_minutes >= 0

\* a validator that keeps the value it was given
validate_breakdown_sum_keeps_value(v, data) == v

\* a validator that allows the tolerance once per category
validate_breakdown_sum_per_category(v, data) ==
    LET expected_total == data.setup_minutes + data.core_implementation_minutes
                          + data.testing_minutes + data.documentation_minutes
                          + data.buffer_minutes
    IN Abs(data.total_minutes - expected_total) < 5 * BreakdownTolerance

\* TimeBreakdown.validate_breakdown_sum: the value the validator returns
\* becomes the field breakdown_valid
validate_breakdown_sum(v, data) ==
    LET expected_total == data.setup_minutes + data.core_implementation_minutes
                          + data.testing_minutes + data.documentation_minutes
                          + data.buffer_minutes
    IN Abs(data.total_minutes - expected_total) < BreakdownTolerance

TimeBreakdown(r) ==
    [is_none |-> FALSE,
     total_minutes |-> r.total_minutes,
     setup_minutes |-> r.setup_minutes,
     core_implementation_minutes |-> r.core_implementation_minutes,
     testing_minutes |-> r.testing_minutes,
     documentation_minutes |-> r.documentation_minutes,
     buffer_minutes |-> r.buffer_minutes,
     breakdown_valid |-> validate_breakdown_sum(r.breakdown_valid, r)]

\* ------------------------------------------------------------------------
\* Capability client (backend/clients/gemini_client.py)
\* ------------------------------------------------------------------------

\* the except clauses of one attempt of generate_json: what the attempt raises
AttemptRaises(o) ==
    CASE o.kind = "json" -> "none"
      [] o.kind = "not_json" -> "GeminiAPIError"
      [] o.kind = "exception" /\ o.message \in {"429", "quota", "rate limit"}
            -> "RateLimitError"
      [] OTHER -> "GeminiAPIError"

\* a retry predicate that retries on every exception
RetryAgain_any_error(exc, n) == n < StopAfterAttempt

\* @retry(retry_if_exception_type(RateLimitError), stop_after_attempt(3)):
\* whether another attempt follows the attempt that raised `exc` as number n
RetryAgain(exc, n) == exc = "RateLimitError" /\ n < StopAfterAttempt

\* generate_json after one more attempt with outcome o, `before` being the
\* outcomes of the earlier attempts of this call
generate_json(before, o) ==
    LET exc == AttemptRaises(o)
        all == Append(before, exc)
    IN [attempts |-> all,
        status |-> IF exc = "none" THEN "returned"
                   ELSE IF RetryAgain(exc, Len(all)) THEN "running"
                   ELSE IF exc = "RateLimitError" THEN "RetryError"
                   ELSE exc]

\* ------------------------------------------------------------------------
\* Phase functions (backend/core/generator.py)
\* ------------------------------------------------------------------------
Raise(kind, why, gate) ==
    [raised |-> kind, cause |-> why, value |-> None, gate |-> gate]

Return(value, gate) ==
    [raised |-> "none", cause |-> "none", value |-> value, gate |-> gate]

\* _extract_context once generate_json ended with `status` (and record r)
extract_context(status, r) ==
    IF status # "returned"
        THEN Raise("ContextExtractionError", status, None)
    ELSE IF ~JobContextAccepts(r)
        THEN Raise("ContextExtractionError", "ValidationError", None)
    ELSE LET v == validate_context_extraction(JobContext(r))
         IN IF ~v.passed
                THEN Raise("ContextExtractionError", "gate", v)
                ELSE Return(JobContext(r), v)

\* _define_scope that reports an unparsable scope as a scope validation
\* failure
define_scope_subtype_error(status, r) ==
    IF status # "returned"
        THEN Raise("GenerationError", status, None)
    ELSE IF ~AssignmentScopeAccepts(r)
        THEN Raise("ScopeValidationError", "ValidationError", None)
    ELSE Return(AssignmentScope(r), None)

\* _define_scope once generate_json ended
define_scope(status, r) ==
    IF status # "returned"
        THEN Raise("GenerationError", status, None)
    ELSE IF ~AssignmentScopeAccepts(r)
        THEN Raise("GenerationError", "ValidationError", None)
    ELSE Return(AssignmentScope(r), None)

\* ScopeValidation(passed=..., issues=..., warnings=...)
ScopeValidation(passed, issues, warnings) ==
    [is_none |-> FALSE, passed |-> passed, issues |-> issues, warnings |-> warnings]

\* _validate_scope that fails a scope whose complexity does not match the
\* seniority level
validate_scope_phase_mismatch_fails(sc, inp) ==
    LET validation_result == validate_scope(sc, inp.time_budget)
        warnings == generate_scope_warnings(sc, inp.seniority_level, inp.time_budget)
    IN ScopeValidation(validation_result.passed
                            /\ check_seniority_match(sc, inp.seniority_level),
                       validation_result.issues,
                       validation_result.warnings \o warnings)

\* _validate_scope(scope, input_data)
validate_scope_phase(sc, inp) ==
    LET validation_result == validate_scope(sc, inp.time_budget)
        warnings == generate_scope_warnings(sc, inp.seniority_level, inp.time_budget)
    IN ScopeValidation(validation_result.passed,
                       validation_result.issues,
                       validation_result.warnings \o warnings)

\* _generate_rubric that lets the error of the schema construction leave as
\* a plain GenerationError
generate_rubric_plain_error(status, r) ==
    IF status # "returned"
        THEN Raise("RubricGenerationError", status, None)
    ELSE IF ~r.well_formed
            \/ \E i \in 1..Len(r.scoring_rubric) : ~RubricItemAccepts(r.scoring_rubric[i])
            \/ ~EvaluatorGuideAccepts(r.scoring_rubric)
        THEN Raise("GenerationError", "ValidationError", None)
    ELSE LET v == validate_rubric(r.scoring_rubric)
         IN IF ~v.passed
                THEN Raise("RubricGenerationError", "gate", v)
                ELSE Return(EvaluatorGuide(r.scoring_rubric), v)

\* _generate_rubric once generate_json ended
generate_rubric(status, r) ==
    IF status # "returned"
        THEN Raise("RubricGenerationError", status, None)
    ELSE IF ~r.well_formed
            \/ \E i \in 1..Len(r.scoring_rubric) : ~RubricItemAccepts(r.scoring_rubric[i])
            \/ ~EvaluatorGuideAccepts(r.scoring_rubric)
        THEN Raise("RubricGenerationError", "ValidationError", None)
    ELSE LET v == validate_rubric(r.scoring_rubric)
         IN IF ~v.passed
                THEN Raise("RubricGenerationError", "gate", v)
                ELSE Return(EvaluatorGuide(r.scoring_rubric), v)

\* _generate_time_breakdown once generate_json ended
generate_time_breakdown(status, r) ==
    IF status # "returned"
        THEN Raise("GenerationError", status, None)
    ELSE IF ~TimeBreakdownAccepts(r)
        THEN Raise("GenerationError", "ValidationError", None)
    ELSE Return(TimeBreakdown(r), None)

\* _estimate_difficulty with an exclusive bound on the time of an easy scope
estimate_difficulty_exclusive(sc) ==
    LET total_time == SumSeq(all_requirements(sc))
        requirement_count == Len(sc.must_have)
    IN IF total_time < 180 /\ requirement_count <= 4 THEN "easy"
       ELSE IF total_time >= 360 \/ requirement_count >= 6 THEN "hard"
       ELSE "medium"

\* _estimate_difficulty(scope, input_data)
estimate_difficulty(sc) ==
    LET total_time == SumSeq(all_requirements(sc))
        requirement_count == Len(sc.must_have)
    IN IF total_time <= 180 /\ requirement_count <= 4 THEN "easy"
       ELSE IF total_time >= 360 \/ requirement_count >= 6 THEN "hard"
       ELSE "medium"

\* _assemble_assignment that merges the warnings of the three gates
assemble_assignment_all_warnings(ctx, sc, rb, tb, v, inp) ==
    IF ~RequirementsAccepts(sc) \/ ~CandidateBriefAccepts(sc)
        THEN Raise("ValidationError", "ValidationError", None)
    ELSE Return([is_none |-> FALSE,
                 candidate_brief |->
                    [business_context |-> sc.business_context,
                     requirements |-> [must_have |-> sc.must_have,
                                       nice_to_have |-> sc.nice_to_have,
                                       constraints |-> sc.constraints],
                     evaluation_criteria |-> Len(rb.scoring_rubric)],
                 evaluator_guide |-> rb,
                 time_breakdown |-> tb,
                 estimated_difficulty |-> estimate_difficulty(sc),
                 scope_warnings |->
                    validate_context_extraction(ctx).warnings
                    \o v.warnings
                    \o validate_rubric(rb.scoring_rubric).warnings], None)

\* _assemble_assignment(...): the schema constructions may raise
assemble_assignment(ctx, sc, rb, tb, v, inp) ==
    IF ~RequirementsAccepts(sc) \/ ~CandidateBriefAccepts(sc)
        THEN Raise("ValidationError", "ValidationError", None)
    ELSE Return([is_none |-> FALSE,
                 candidate_brief |->
                    [business_context |-> sc.business_context,
                     requirements |-> [must_have |-> sc.must_have,
                                       nice_to_have |-> sc.nice_to_have,
                                       constraints |-> sc.constraints],
                     evaluation_criteria |-> Len(rb.scoring_rubric)],
                 evaluator_guide |-> rb,
                 time_breakdown |-> tb,
                 estimated_difficulty |-> estimate_difficulty(sc),
                 scope_warnings |-> v.warnings], None)

\* generate() with the two calls of phase 4 in the other order
NextPhase_time_breakdown_first(phase) ==
    CASE phase = "phase1" -> "phase2"
      [] phase = "phase2" -> "phase3"
      [] phase = "phase3" -> "phase4b"
      [] phase = "phase4b" -> "phase4a"
      [] phase = "phase4a" -> "assemble"
      [] OTHER -> "done"

\* generate() without the time-breakdown call
NextPhase_no_time_breakdown(phase) ==
    CASE phase = "phase1" -> "phase2"
      [] phase = "phase2" -> "phase3"
      [] phase = "phase3" -> "phase4a"
      [] phase = "phase4a" -> "assemble"
      [] OTHER -> "done"

\* generate(): the statement that follows each phase
NextPhase(phase) ==
    CASE phase = "phase1" -> "phase2"
      [] phase = "phase2" -> "phase3"
      [] phase = "phase3" -> "phase4a"
      [] phase = "phase4a" -> "phase4b"
      [] phase = "phase4b" -> "assemble"
      [] OTHER -> "done"

\* generate() without the check of validation.passed
ScopeCheckRaises_ignored(v) == FALSE

\* generate(): `if not validation.passed: raise ScopeValidationError(...)`
ScopeCheckRaises(v) == ~v.passed

\* generate_assignment (route): the except clauses, as the status answered
RouteStatus(exc) ==
    CASE exc = "none" -> 201
      [] exc = "ScopeValidationError" -> 400
      [] exc = "ContextExtractionError" -> 400
      [] exc = "RubricGenerationError" -> 500
      [] exc = "GeminiAPIError" -> 503
      [] OTHER -> 500

\* ------------------------------------------------------------------------
\* Inputs of the request and records the capability may return
\* ------------------------------------------------------------------------
Texts == {<<>>, <<" ">>, <<"x">>}

Inputs ==
    {[time_budget |-> MinBudgetQuarters, seniority_level |-> "junior"],
     [time_budget |-> 2 * MinBudgetQuarters, seniority_level |-> "senior"]}

OptionalTexts ==
    {[is_none |-> TRUE, text |-> <<>>],
     [is_none |-> FALSE, text |-> <<>>],
     [is_none |-> FALSE, text |-> <<"x">>]}

ContextResponses ==
    [well_formed : BOOLEAN,
     responsibilities : (MinResponsibilities - 1)..MaxResponsibilities,
     business_domain : Texts,
     daily_technologies : {0, 1},
     collaboration_patterns : OptionalTexts]

\* n requirements of `base` minutes each, the first one `delta` minutes longer
Reqs(n, base, delta) == [i \in 1..n |-> IF i = 1 THEN base + delta ELSE base]

MustCounts == {MinMustHave - 1, MinMustHave, ManyMustHave, MaxMustHave}

BusinessContexts ==
    [len : {MinBusinessContext - 1, MinBusinessContext,
            LongBusinessContext, LongBusinessContext + 1},
     terms : {{}, {"todo", "blog"}}]

ScopeResponses ==
    {[well_formed |-> wf, must_have |-> Reqs(n, base, delta), nice_to_have |-> nice,
      business_context |-> bc, constraints |-> c] :
        wf \in BOOLEAN, n \in MustCounts, base \in {0, 15, 40},
        delta \in {0}, nice \in {<<>>, <<30>>},
        bc \in BusinessContexts, c \in {MinConstraints - 1, MinConstraints}}

RubricItemOf(weight, guide, expectation) ==
    [weight |-> weight, junior_expectation |-> expectation,
     mid_expectation |-> <<"x">>, senior_expectation |-> <<"x">>,
     scoring_guide |-> guide]

\* n weights that sum to WeightUnit + delta, the first one taking the remainder
Weights(n, delta) ==
    [i \in 1..n |-> IF i = 1 THEN WeightUnit + delta - (n - 1) * (WeightUnit \div n)
                    ELSE WeightUnit \div n]

WeightVectors ==
    {Weights(n, delta) :
        n \in {MinRubricItems - 1, MinRubricItems, ManyRubricItems, MaxRubricItems},
        delta \in {0, 2}}
    \cup {<<WeightUnit \div 2, WeightUnit \div 2, 0>>,
          <<WeightUnit \div 2, WeightUnit \div 2 - 6, 6>>,
          <<WeightUnit + 1, 0, 0>>}

\* a rubric with weights w whose first item has scoring guide `guide` and
\* whose last item has junior expectation `expectation`
RubricOf(w, guide, expectation) ==
    [i \in 1..Len(w) |->
        RubricItemOf(w[i],
                     IF i = 1 THEN guide ELSE <<"x">>,
                     IF i = Len(w) THEN expectation ELSE <<"x">>)]

RubricResponses ==
    {[well_formed |-> wf, scoring_rubric |-> RubricOf(w, guide, expectation)] :
        wf \in BOOLEAN, w \in WeightVectors, guide \in Texts,
        expectation \in {<<>>, <<"x">>}}

TimeBreakdownResponses ==
    [well_formed : BOOLEAN,
     total_minutes : {120},
     setup_minutes : {10},
     core_implementation_minutes : {0, 54, 55, 56, 60},
     testing_minutes : {20},
     documentation_minutes : {10},
     buffer_minutes : {20},
     breakdown_valid : BOOLEAN]

\* what one call of model.generate_content can do, for a phase whose valid
\* JSON answers are `responses`
ModelOutcomes(responses) ==
    {[kind |-> "json", message |-> "", record |-> r] : r \in responses}
    \cup {[kind |-> "not_json", message |-> "", record |-> None]}
    \cup {[kind |-> "exception", message |-> m, record |-> None] :
            m \in {"429", "quota", "rate limit", "other"}}

\* ------------------------------------------------------------------------
\* The generate request
\* ------------------------------------------------------------------------
Init ==
    /\ input \in Inputs
    /\ pc = "phase1"
    /\ calls = <<>>
    /\ attempts = <<>>
    /\ call_status = "none"
    /\ context = None
    /\ scope = None
    /\ validation = None
    /\ rubric = None
    /\ time_breakdown = None
    /\ reported_valid = None
    /\ gate_result = None
    /\ raised = "none"
    /\ cause = "none"
    /\ result = None
    /\ http_status = 0
    /\ requests = <<>>

\* the attempts of the call in progress
Before == IF call_status = "running" THEN attempts ELSE <<>>

\* one attempt of the generate_json call of `phase`, with outcome o
CallStep(phase, o) ==
    /\ calls' = IF call_status = "running" THEN calls ELSE Append(calls, phase)
    /\ attempts' = generate_json(Before, o).attempts
    /\ call_status' = generate_json(Before, o).status

\* the phase function ended with r: generate() goes on or the exception
\* leaves it and the route answers
PhaseEnds(phase, r) ==
    /\ raised' = r.raised
    /\ cause' = r.cause
    /\ pc' = IF r.raised = "none" THEN NextPhase(phase) ELSE "done"
    /\ http_status' = IF r.raised = "none" THEN 0 ELSE RouteStatus(r.raised)

\* Phase 1: one attempt of the capability call; when the call ends, the rest
\* of _extract_context
ExtractContext ==
    /\ pc = "phase1"
    /\ \E o \in ModelOutcomes(ContextResponses) :
        /\ CallStep("phase1", o)
        /\ IF generate_json(Before, o).status = "running"
            THEN UNCHANGED <<pc, context, gate_result, raised, cause, http_status>>
            ELSE LET r == extract_context(generate_json(Before, o).status, o.record)
                 IN /\ context' = r.value
                    /\ gate_result' = r.gate
                    /\ PhaseEnds("phase1", r)
    /\ UNCHANGED <<requests, input, scope, validation, rubric, time_breakdown,
                   reported_valid, result>>

\* Phase 2
DefineScope ==
    /\ pc = "phase2"
    /\ \E o \in ModelOutcomes(ScopeResponses) :
        /\ CallStep("phase2", o)
        /\ IF generate_json(Before, o).status = "running"
            THEN UNCHANGED <<pc, scope, raised, cause, http_status>>
            ELSE LET r == define_scope(generate_json(Before, o).status, o.record)
                 IN /\ scope' = r.value
                    /\ PhaseEnds("phase2", r)
    /\ UNCHANGED <<requests, input, context, validation, rubric, time_breakdown,
                   reported_valid, gate_result, result>>

\* Phase 3 and the check of validation.passed in generate()
ValidateScope ==
    /\ pc = "phase3"
    /\ validation' = validate_scope_phase(scope, input)
    /\ gate_result' = validate_scope(scope, input.time_budget)
    /\ PhaseEnds("phase3",
                 IF ScopeCheckRaises(validate_scope_phase(scope, input))
                    THEN Raise("ScopeValidationError", "gate", None)
                    ELSE Return(None, None))
    /\ UNCHANGED <<requests, input, calls, attempts, call_status, context, scope, rubric,
                   time_breakdown, reported_valid, result>>

\* Phase 4a
GenerateRubric ==
    /\ pc = "phase4a"
    /\ \E o \in ModelOutcomes(RubricResponses) :
        /\ CallStep("phase4a", o)
        /\ IF generate_json(Before, o).status = "running"
            THEN UNCHANGED <<pc, rubric, gate_result, raised, cause, http_status>>
            ELSE LET r == generate_rubric(generate_json(Before, o).status, o.record)
                 IN /\ rubric' = r.value
                    /\ gate_result' = r.gate
                    /\ PhaseEnds("phase4a", r)
    /\ UNCHANGED <<requests, input, context, scope, validation, time_breakdown,
                   reported_valid, result>>

\* response["breakdown_valid"] of the answer o of the capability, None when
\* the call gave no answer
Reported(o) ==
    IF o.kind = "json" THEN [is_none |-> FALSE, value |-> o.record.breakdown_valid]
    ELSE None

\* Phase 4b
GenerateTimeBreakdown ==
    /\ pc = "phase4b"
    /\ \E o \in ModelOutcomes(TimeBreakdownResponses) :
        /\ CallStep("phase4b", o)
        /\ IF generate_json(Before, o).status = "running"
            THEN UNCHANGED <<pc, time_breakdown, reported_valid, raised, cause,
                             http_status>>
            ELSE LET r == generate_time_breakdown(generate_json(Before, o).status,
                                                  o.record)
                 IN /\ time_breakdown' = r.value
                    /\ reported_valid' = Reported(o)
                    /\ PhaseEnds("phase4b", r)
    /\ UNCHANGED <<requests, input, context, scope, validation, rubric, gate_result, result>>

\* Assembly; generate() returns and the route answers
Assemble ==
    /\ pc = "assemble"
    /\ LET r == assemble_assignment(context, scope, rubric, time_breakdown,
                                    validation, input)
       IN /\ result' = r.value
          /\ raised' = r.raised
          /\ cause' = r.cause
          /\ pc' = "done"
          /\ http_status' = RouteStatus(r.raised)
    /\ UNCHANGED <<requests, input, calls, attempts, call_status, context, scope, validation,
                   rubric, time_breakdown, reported_valid, gate_result>>

Next ==
    \/ ExtractContext
    \/ DefineScope
    \/ ValidateScope
    \/ GenerateRubric
    \/ GenerateTimeBreakdown
    \/ Assemble

Spec == Init /\ [][Next]_vars

\* ------------------------------------------------------------------------
\* The quality gates applied to given entities
\* ------------------------------------------------------------------------
GateInputs ==
    [time_budget : {MinBudgetQuarters, 10, 2 * MinBudgetQuarters, MaxBudgetQuarters},
     seniority_level : {"junior", "mid", "senior", "staff"}]

GateContexts == {JobContext(r) : r \in {c \in ContextResponses : c.well_formed}}

GateScopes ==
    {AssignmentScope([well_formed |-> TRUE, must_have |-> Reqs(n, base, delta),
                      nice_to_have |-> nice, business_context |-> bc,
                      constraints |-> c]) :
        n \in {0} \cup MustCounts, base \in {15, 30, 45, 60, 120},
        delta \in {-1, 0, 1}, nice \in {<<>>, <<60>>, <<120>>, <<240>>},
        bc \in BusinessContexts, c \in {MinConstraints - 1, MinConstraints}}

\* get_scope_definition_prompt: the minutes the prompt asks for, for a budget
\* in quarter hours (60 %, 20 % and 20 % of the budget)
ScopeTimeTargets(budget_quarters) ==
    [must_have |-> (MustHaveTargetPct * expected_minutes(budget_quarters)) \div 100,
     nice_to_have |->
        (NiceToHaveTargetPct * expected_minutes(budget_quarters)) \div 100,
     buffer |-> (BufferTargetPct * expected_minutes(budget_quarters)) \div 100]

\* a scope that meets the targets of the prompt: three equal must-haves and
\* one nice-to-have
TargetScope(budget_quarters) ==
    LET t == ScopeTimeTargets(budget_quarters)
    IN AssignmentScope([well_formed |-> TRUE,
                        must_have |-> Reqs(MinMustHave, t.must_have \div MinMustHave, 0),
                        nice_to_have |-> <<t.nice_to_have>>,
                        business_context |-> [len |-> MinBusinessContext, terms |-> {}],
                        constraints |-> MinConstraints])

GateWeightVectors ==
    {Weights(n, delta) :
        n \in {MinRubricItems - 1, MinRubricItems, ManyRubricItems, MaxRubricItems},
        delta \in {-2, -1, 0, 1, 2}}
    \cup {<<>>,
          <<WeightUnit \div 2, WeightUnit \div 2, 0>>,
          <<WeightUnit \div 2, WeightUnit \div 2, 0, 0>>,
          <<WeightUnit \div 2, WeightUnit \div 2 - 6, 6>>,
          <<WeightUnit \div 2, WeightUnit \div 2 - 7, 7>>}

GateRubrics ==
    {RubricOf(w, guide, expectation) :
        w \in GateWeightVectors, guide \in Texts \cup {<<" ", "x">>, <<" ", " ">>},
        expectation \in {<<>>, <<"x">>}}

\* the level strings given to check_seniority_match: the four levels and one
\* string that is none of them
SeniorityLevels == {"junior", "mid", "senior", "staff", "principal"}

\* total minutes on and next to the bounds of the four time ranges
SeniorityTotals ==
    {119, 120, 179, 180, 181, 239, 240, 241, 299, 300, 301, 359, 360, 361, 419,
     420, 421, 539, 540, 541}

\* scopes of n must-haves whose requirements take `total` minutes together,
\* `nice` of them in one nice-to-have when nice > 0
SeniorityScopes ==
    {AssignmentScope(
        [well_formed |-> TRUE,
         must_have |-> Reqs(n, (total - nice) \div n,
                            (total - nice) - n * ((total - nice) \div n)),
         nice_to_have |-> IF nice > 0 THEN <<nice>> ELSE <<>>,
         business_context |-> [len |-> MinBusinessContext, terms |-> {}],
         constraints |-> MinConstraints]) :
        n \in (MinMustHave - 1)..MaxMustHave, total \in SeniorityTotals,
        nice \in {0, 60}}

\* the arguments given to AssignmentInput(...)
RawInputs ==
    [job_title : {0, 1, JobTitleMaxLength + 1},
     job_description : {5, JobDescriptionMinLength - 1, JobDescriptionMinLength,
                        499, 500, JobDescriptionMaxLength,
                        JobDescriptionMaxLength + 1},
     tech_stack : {0, 1},
     time_budget : {0, 4, MinBudgetQuarters - 1, MinBudgetQuarters, 16,
                    MaxBudgetQuarters, MaxBudgetQuarters + 1, 40},
     seniority_level : {"mid", "principal"}]

GateIdle ==
    /\ calls = <<>>
    /\ attempts = <<>>
    /\ call_status = "none"
    /\ validation = None
    /\ time_breakdown = None
    /\ reported_valid = None
    /\ gate_result = None
    /\ raised = "none"
    /\ cause = "none"
    /\ result = None
    /\ http_status = 0
    /\ requests = <<>>

GateInit ==
    /\ GateIdle
    /\ \/ /\ pc = "context_given"
          /\ input \in {i \in GateInputs : i.seniority_level = "mid"
                                            /\ i.time_budget = MinBudgetQuarters}
          /\ context \in GateContexts
          /\ scope = None
          /\ rubric = None
       \/ /\ pc = "scope_given"
          /\ input \in GateInputs
          /\ context = None
          /\ scope \in GateScopes
          /\ rubric = None
       \/ /\ pc = "scope_given"
          /\ input \in [time_budget : MinBudgetQuarters..MaxBudgetQuarters,
                         seniority_level : {"mid", "senior"}]
          /\ context = None
          /\ scope = TargetScope(input.time_budget)
          /\ rubric = None
       \/ /\ pc = "rubric_given"
          /\ input \in {i \in GateInputs : i.seniority_level = "mid"
                                            /\ i.time_budget = MinBudgetQuarters}
          /\ context = None
          /\ scope = None
          /\ rubric \in GateRubrics
       \/ /\ pc = "input_given"
          /\ input \in RawInputs
          /\ context = None
          /\ scope = None
          /\ rubric = None
       \/ /\ pc = "seniority_given"
          /\ input \in [time_budget : {2 * MinBudgetQuarters},
                         seniority_level : SeniorityLevels]
          /\ context = None
          /\ scope \in SeniorityScopes
          /\ rubric = None

\* QualityGate().validate_context_extraction(context)
CheckContext ==
    /\ pc = "context_given"
    /\ gate_result' = validate_context_extraction(context)
    /\ pc' = "context_checked"
    /\ UNCHANGED <<requests, input, calls, attempts, call_status, context, scope, validation,
                   rubric, time_breakdown, reported_valid, raised, cause, result,
                   http_status>>

\* QualityGate().validate_scope(scope, hours) and _validate_scope(scope, input)
CheckScope ==
    /\ pc = "scope_given"
    /\ gate_result' = validate_scope(scope, input.time_budget)
    /\ validation' = validate_scope_phase(scope, input)
    /\ pc' = "scope_checked"
    /\ UNCHANGED <<requests, input, calls, attempts, call_status, context, scope,
                   rubric, time_breakdown, reported_valid, raised, cause, result,
                   http_status>>

\* QualityGate().validate_rubric(rubric)
CheckRubric ==
    /\ pc = "rubric_given"
    /\ gate_result' = validate_rubric(rubric)
    /\ pc' = "rubric_checked"
    /\ UNCHANGED <<requests, input, calls, attempts, call_status, context, scope, validation,
                   rubric, time_breakdown, reported_valid, raised, cause, result,
                   http_status>>

\* _generate_rubric(scope, input) when the capability answers with the given
\* rubric items: the guide it returns, or the error it raises
RubricPhase ==
    /\ pc = "rubric_given"
    /\ LET r == generate_rubric("returned",
                                [well_formed |-> TRUE, scoring_rubric |-> rubric])
       IN /\ result' = r.value
          /\ gate_result' = r.gate
          /\ raised' = r.raised
          /\ cause' = r.cause
    /\ pc' = "rubric_phase_done"
    /\ UNCHANGED <<requests, input, calls, attempts, call_status, context, scope, validation,
                   rubric, time_breakdown, reported_valid, http_status>>

\* QualityGate().check_seniority_match(scope, level) and
\* QualityGate().generate_scope_warnings(scope, level, hours): what they return
CheckSeniority ==
    /\ pc = "seniority_given"
    /\ result' = [is_none |-> FALSE,
                  matches |-> check_seniority_match(scope, input.seniority_level),
                  warnings |-> generate_scope_warnings(scope, input.seniority_level,
                                                       input.time_budget)]
    /\ pc' = "seniority_checked"
    /\ UNCHANGED <<requests, input, calls, attempts, call_status, context, scope, validation,
                   rubric, time_breakdown, reported_valid, gate_result, raised,
                   cause, http_status>>

\* AssignmentGenerator._estimate_difficulty(scope, input): the label it returns
EstimateDifficulty ==
    /\ pc = "seniority_given"
    /\ result' = [is_none |-> FALSE, difficulty |-> estimate_difficulty(scope)]
    /\ pc' = "difficulty_estimated"
    /\ UNCHANGED <<requests, input, calls, attempts, call_status, context, scope, validation,
                   rubric, time_breakdown, reported_valid, gate_result, raised,
                   cause, http_status>>

\* AssignmentInput(...): the object is built or pydantic raises
ConstructInput ==
    /\ pc = "input_given"
    /\ raised' = IF AssignmentInputAccepts(input) THEN "none" ELSE "ValidationError"
    /\ pc' = "input_constructed"
    /\ UNCHANGED <<requests, input, calls, attempts, call_status, context, scope,
                   validation, rubric, time_breakdown, reported_valid, gate_result,
                   cause, result, http_status>>

\* the position after the second call of a gate
Again(position) ==
    CASE position = "context_checked" -> "context_checked_again"
      [] position = "scope_checked" -> "scope_checked_again"
      [] position = "rubric_checked" -> "rubric_checked_again"
      [] OTHER -> "seniority_checked_again"

\* the same gate called once more on the same entities
CheckAgain ==
    /\ pc \in {"context_checked", "scope_checked", "rubric_checked",
               "seniority_checked"}
    /\ gate_result' =
            CASE pc = "context_checked" -> validate_context_extraction(context)
              [] pc = "scope_checked" -> validate_scope(scope, input.time_budget)
              [] pc = "rubric_checked" -> validate_rubric(rubric)
              [] OTHER -> gate_result
    /\ validation' = IF pc = "scope_checked"
                        THEN validate_scope_phase(scope, input) ELSE validation
    /\ result' =
            IF pc = "seniority_checked"
                THEN [is_none |-> FALSE,
                      matches |-> check_seniority_match(scope, input.seniority_level),
                      warnings |-> generate_scope_warnings(scope,
                                                           input.seniority_level,
                                                           input.time_budget)]
                ELSE result
    /\ pc' = Again(pc)
    /\ UNCHANGED <<requests, input, calls, attempts, call_status, context, scope,
                   rubric, time_breakdown, reported_valid, raised, cause,
                   http_status>>

GateNext ==
    \/ CheckContext
    \/ CheckScope
    \/ CheckRubric
    \/ RubricPhase
    \/ CheckSeniority
    \/ EstimateDifficulty
    \/ ConstructInput
    \/ CheckAgain

GateSpec == GateInit /\ [][GateNext]_vars

\* ------------------------------------------------------------------------
\* Two requests in progress at the same time
\*
\* get_gemini_client() is cached, so both requests call generate_json of the
\* same GeminiClient; its attributes are assigned in __init__ only.
\* get_generator() builds a new AssignmentGenerator (and QualityGate) for each
\* request, and everything a phase computes is a local of the coroutine that
\* serves the request.  A request is therefore one record of `requests`.
\* ------------------------------------------------------------------------
RequestIds == {1, 2}

\* a step of generate() or of the validate route that makes no capability call
LocalStep == [kind |-> "local", message |-> "", record |-> None]

\* the state of a request when its route handler starts
InitRequest(operation, inp) ==
    [operation |-> operation, input |-> inp, pc |-> "phase1", calls |-> <<>>,
     attempts |-> <<>>, call_status |-> "none", context |-> None, scope |-> None,
     validation |-> None, rubric |-> None, time_breakdown |-> None,
     raised |-> "none", cause |-> "none", result |-> None, http_status |-> 0]

\* validate_assignment_input (route): the except clauses, as the status answered
ValidateRouteStatus(exc) ==
    CASE exc = "none" -> 200
      [] exc = "ContextExtractionError" -> 400
      [] OTHER -> 500

RequestRouteStatus(operation, exc) ==
    IF operation = "generate" THEN RouteStatus(exc) ELSE ValidateRouteStatus(exc)

\* a retry state that lives in the shared client: the attempts of the other
\* request's call count as well
CallAttempts_shared(own, other) == other \o own

\* the attempts the stop condition of a generate_json call counts: the retry
\* state belongs to the call
CallAttempts(own, other) == own

\* the phase function that follows the capability call of `phase`
PhaseResult(req, phase, status, r) ==
    CASE phase = "phase1" -> extract_context(status, r)
      [] phase = "phase2" -> define_scope(status, r)
      [] phase = "phase4a" -> generate_rubric(status, r)
      [] OTHER -> generate_time_breakdown(status, r)

\* the local of the route handler that receives what the phase returned
PhaseField(phase) ==
    CASE phase = "phase1" -> "context"
      [] phase = "phase2" -> "scope"
      [] phase = "phase4a" -> "rubric"
      [] OTHER -> "time_breakdown"

\* a validate route that goes on like generate() after the scope validation
RequestNextPhase_validate_goes_on(operation, phase) == NextPhase(phase)

\* validate_assignment_input: scope, then _validate_scope, then the answer;
\* generate(): the statement that follows each phase
RequestNextPhase(operation, phase) ==
    IF operation = "validate" /\ phase = "phase3" THEN "done" ELSE NextPhase(phase)

\* the request after an exception of kind `exc` left its handler
RequestFails(req, exc, why) ==
    [req EXCEPT !.raised = exc, !.cause = why, !.pc = "done",
                !.http_status = RequestRouteStatus(req.operation, exc)]

\* one attempt of the capability call of the phase the request is in, with
\* outcome o; `other` is the request in progress at the same time
RequestAttempt(req, other, o) ==
    LET phase == req.pc
        before == IF req.call_status = "running"
                    THEN CallAttempts(req.attempts, other.attempts) ELSE <<>>
        g == generate_json(before, o)
        called == [req EXCEPT !.calls = IF req.call_status = "running"
                                          THEN @ ELSE Append(@, phase),
                              !.attempts = Append(IF req.call_status = "running"
                                                    THEN @ ELSE <<>>,
                                                  AttemptRaises(o)),
                              !.call_status = g.status]
        r == PhaseResult(req, phase, g.status, o.record)
    IN IF g.status = "running" THEN called
       ELSE IF r.raised # "none" THEN RequestFails(called, r.raised, r.cause)
       ELSE [called EXCEPT ![PhaseField(phase)] = r.value,
                           !.pc = RequestNextPhase(req.operation, phase)]

\* a validate route that reports every scope as passed
ValidationResultOf_always_passed(v) ==
    [is_none |-> FALSE, passed |-> TRUE, issues |-> v.issues,
     warnings |-> v.warnings]

\* ValidationResult(passed=validation.passed, issues=..., warnings=...) of the
\* validate route
ValidationResultOf(v) ==
    [is_none |-> FALSE, passed |-> v.passed, issues |-> v.issues,
     warnings |-> v.warnings]

\* phase 3 of the request: generate() raises on a failed validation, the
\* validate route answers with the validation
RequestValidates(req) ==
    LET v == validate_scope_phase(req.scope, req.input)
        validated == [req EXCEPT !.validation = v]
    IN IF req.operation = "validate"
        THEN [validated EXCEPT !.result = ValidationResultOf(v),
                               !.pc = RequestNextPhase(req.operation, "phase3"),
                               !.http_status = ValidateRouteStatus("none")]
       ELSE IF ScopeCheckRaises(v)
        THEN RequestFails(validated, "ScopeValidationError", "gate")
       ELSE [validated EXCEPT !.pc = RequestNextPhase(req.operation, "phase3")]

\* assembly of the request; generate() returns and the route answers
RequestAssembles(req) ==
    LET r == assemble_assignment(req.context, req.scope, req.rubric,
                                 req.time_breakdown, req.validation, req.input)
    IN IF r.raised # "none" THEN RequestFails(req, r.raised, r.cause)
       ELSE [req EXCEPT !.result = r.value, !.pc = "done",
                        !.http_status = RouteStatus("none")]

\* one step of a request
RequestStep(req, other, o) ==
    CASE req.pc = "phase3" -> RequestValidates(req)
      [] req.pc = "assemble" -> RequestAssembles(req)
      [] OTHER -> RequestAttempt(req, other, o)

\* the answers the capability gives in this setting
RequestContextResponses ==
    {[well_formed |-> TRUE, responsibilities |-> n, business_domain |-> <<"x">>,
      daily_technologies |-> 1, collaboration_patterns |-> None] :
        n \in {MinResponsibilities - 1, MinResponsibilities}}

RequestScopeResponses ==
    {[well_formed |-> TRUE, must_have |-> Reqs(MinMustHave, 40, 0),
      nice_to_have |-> <<>>,
      business_context |-> [len |-> MinBusinessContext, terms |-> {}],
      constraints |-> MinConstraints - 1],
     [well_formed |-> TRUE, must_have |-> Reqs(ManyMustHave, 40, 0),
      nice_to_have |-> <<>>,
      business_context |-> [len |-> LongBusinessContext + 1, terms |-> {}],
      constraints |-> MinConstraints],
     [well_formed |-> FALSE, must_have |-> <<>>, nice_to_have |-> <<>>,
      business_context |-> [len |-> MinBusinessContext, terms |-> {}],
      constraints |-> MinConstraints]}

RequestRubricResponses ==
    {[well_formed |-> TRUE,
      scoring_rubric |-> RubricOf(Weights(MinRubricItems, 0), guide, <<"x">>)] :
        guide \in {<<>>, <<"x">>}}

RequestBreakdownResponses ==
    {r \in TimeBreakdownResponses :
        r.well_formed /\ r.breakdown_valid /\ r.core_implementation_minutes # 56}

\* what one attempt of the capability call of `phase` can do
RequestOutcomes(phase) ==
    {[kind |-> "json", message |-> "", record |-> r] :
        r \in CASE phase = "phase1" -> RequestContextResponses
                [] phase = "phase2" -> RequestScopeResponses
                [] phase = "phase4a" -> RequestRubricResponses
                [] OTHER -> RequestBreakdownResponses}
    \cup {[kind |-> "exception", message |-> m, record |-> None] :
            m \in {"429", "other"}}

RequestsInit ==
    /\ pc = "requests"
    /\ input = None
    /\ calls = <<>>
    /\ attempts = <<>>
    /\ call_status = "none"
    /\ context = None
    /\ scope = None
    /\ validation = None
    /\ rubric = None
    /\ time_breakdown = None
    /\ reported_valid = None
    /\ gate_result = None
    /\ raised = "none"
    /\ cause = "none"
    /\ result = None
    /\ http_status = 0
    /\ requests \in {<<InitRequest("generate", i1), InitRequest(op, i2)>> :
                        i1 \in Inputs, i2 \in Inputs,
                        op \in {"generate", "validate"}}

\* request i makes one attempt of the capability call of its phase
Attempt(i) ==
    /\ requests[i].pc \in {"phase1", "phase2", "phase4a", "phase4b"}
    /\ \E o \in RequestOutcomes(requests[i].pc) :
        requests' = [requests EXCEPT ![i] = RequestStep(@, requests[3 - i], o)]
    /\ UNCHANGED <<input, pc, calls, attempts, call_status, context, scope,
                   validation, rubric, time_breakdown, reported_valid, gate_result,
                   raised, cause, result, http_status>>

\* request i runs its phase 3 or its assembly
Local(i) ==
    /\ requests[i].pc \in {"phase3", "assemble"}
    /\ requests' = [requests EXCEPT ![i] = RequestStep(@, requests[3 - i], LocalStep)]
    /\ UNCHANGED <<input, pc, calls, attempts, call_status, context, scope,
                   validation, rubric, time_breakdown, reported_valid, gate_result,
                   raised, cause, result, http_status>>

RequestsNext == \E i \in RequestIds : Attempt(i) \/ Local(i)

RequestsSpec == RequestsInit /\ [][RequestsNext]_vars

\* ------------------------------------------------------------------------
\* Properties
\* ------------------------------------------------------------------------
Called(phase) == \E i \in 1..Len(calls) : calls[i] = phase

HasIssue(v, msg) == \E i \in 1..Len(v.issues) : v.issues[i].msg = msg

HasItemIssue(v, msg, item) ==
    \E i \in 1..Len(v.issues) : v.issues[i] = [msg |-> msg, item |-> item]

HasWarning(v, msg) == \E i \in 1..Len(v.warnings) : v.warnings[i].msg = msg

IsPrefix(s, t) == Len(s) <= Len(t) /\ \A i \in 1..Len(s) : s[i] = t[i]

\* C1: generate() returns an assignment only when the scope validation of
\* phase 3 passed; when the validation holds a blocking issue, generate()
\* has raised ScopeValidationError, no rubric or time-breakdown call was
\* made, and the scope was requested exactly once (never regenerated).
C1_AssembledOnlyAfterValidScope ==
    /\ ~result.is_none => (~validation.is_none /\ validation.passed)
    /\ (~validation.is_none /\ Len(validation.issues) > 0) =>
            /\ raised = "ScopeValidationError"
            /\ pc = "done"
            /\ result.is_none
            /\ ~Called("phase4a")
            /\ ~Called("phase4b")
            /\ calls = <<"phase1", "phase2">>

C1_Witness ==
    /\ pc = "done"
    /\ ~validation.is_none
    /\ Len(validation.issues) > 0
    /\ raised = "ScopeValidationError"

\* C2: the capability is invoked in the order context extraction, scope
\* definition, rubric, time breakdown; a phase is called only after the
\* previous ones returned successfully; a call starts only when no call is in
\* flight; and once generate() has failed no call is made again.
C2_PhaseOrderInv ==
    /\ IsPrefix(calls, <<"phase1", "phase2", "phase4a", "phase4b">>)
    /\ call_status = "running" => (calls # <<>> /\ pc = calls[Len(calls)])
    /\ Called("phase2") => ~context.is_none
    /\ Called("phase4a") => (~scope.is_none /\ ~validation.is_none /\ validation.passed)
    /\ Called("phase4b") => ~rubric.is_none
    /\ raised # "none" => pc = "done"

C2_PhaseOrder ==
    /\ []C2_PhaseOrderInv
    /\ [][/\ calls' # calls => (call_status # "running" /\ raised = "none")
          /\ raised # "none" => calls' = calls]_vars

C2_Witness ==
    /\ calls = <<"phase1", "phase2", "phase4a", "phase4b">>
    /\ call_status = "running"

\* C3: generate() ends either with a complete assignment (brief, evaluator
\* guide and time breakdown produced in this request) or with an error and no
\* assignment at all; before it ends nothing is returned.
C3_CompleteOrNothing ==
    /\ pc # "done" => result.is_none
    /\ pc = "done" => ((raised = "none") <=> ~result.is_none)
    /\ ~result.is_none =>
            /\ ~scope.is_none /\ ~rubric.is_none /\ ~time_breakdown.is_none
            /\ result.candidate_brief.requirements.must_have = scope.must_have
            /\ result.candidate_brief.business_context = scope.business_context
            /\ result.evaluator_guide = rubric
            /\ result.time_breakdown = time_breakdown

C3_Witness ==
    /\ pc = "done"
    /\ raised = "GenerationError"
    /\ ~rubric.is_none
    /\ result.is_none

\* C4: a failure of generate() is a ContextExtractionError, a
\* ScopeValidationError, a RubricGenerationError, a plain GenerationError or a
\* capability-level failure; no other kind of error leaves generate().
C4_OnlyListedErrorKinds ==
    raised \in {"none", "ContextExtractionError", "ScopeValidationError",
                "RubricGenerationError", "GenerationError",
                "GeminiAPIError", "RateLimitError", "RetryError"}

\* C5: when the capability call of a phase ends with GeminiAPIError, the
\* caller of generate() receives the capability error (answered with 503),
\* not a ContextExtractionError, RubricGenerationError or GenerationError.
C5_CapabilityErrorSurfaces ==
    (pc = "done" /\ call_status = "GeminiAPIError") =>
        (raised = "GeminiAPIError" /\ http_status = 503)

\* C6: one generate_json call makes at most 3 attempts; every attempt but the
\* last failed with the rate-limit class; a successful attempt ends the call
\* with a result, any other capability error ends it with a failure at once,
\* and the third rate-limited attempt ends it with a failure.
C6_BoundedRetry ==
    LET n == Len(attempts) IN
    /\ n <= 3
    /\ \A i \in 1..(n - 1) : attempts[i] = "RateLimitError"
    /\ call_status = "none" <=> n = 0
    /\ n > 0 =>
        /\ call_status = "returned" <=> attempts[n] = "none"
        /\ call_status = "GeminiAPIError" <=> attempts[n] = "GeminiAPIError"
        /\ call_status = "RetryError" <=> (attempts[n] = "RateLimitError" /\ n = 3)
        /\ call_status = "running" <=> (attempts[n] = "RateLimitError" /\ n < 3)
    /\ (call_status \in {"GeminiAPIError", "RetryError"}) =>
            (pc = "done" /\ raised # "none")

C6_Witness == call_status = "RetryError" /\ Len(attempts) = 3

C9_RubricPassesExactlyWhen ==
    pc = "rubric_checked" =>
        LET n == Len(rubric)
            sum == SumSeq([i \in 1..n |-> rubric[i].weight])
            sum_ok == 100 * (sum - WeightUnit) <= WeightUnit
                      /\ 100 * (WeightUnit - sum) <= WeightUnit
            guide_ok(i) == \E k \in 1..Len(rubric[i].scoring_guide) :
                                rubric[i].scoring_guide[k] # " "
        IN /\ gate_result.passed <=>
                /\ n >= 3
                /\ sum_ok
                /\ \A i \in 1..n : rubric[i].weight > 0
                /\ \A i \in 1..n : guide_ok(i)
           /\ n < 3 => HasIssue(gate_result, "Too few rubric items")
           /\ ~sum_ok => HasIssue(gate_result, "Rubric weights sum")
           /\ \A i \in 1..n :
                rubric[i].weight <= 0 => HasItemIssue(gate_result, "invalid weight", i)
           /\ \A i \in 1..n :
                ~guide_ok(i) => HasItemIssue(gate_result, "empty scoring guide", i)

C9_Witness ==
    /\ pc = "rubric_checked"
    /\ Len(rubric) >= 3
    /\ rubric[1].scoring_guide = <<" ", " ">>
    /\ gate_result.issues = <<[msg |-> "empty scoring guide", item |-> 1]>>
    /\ ~gate_result.passed

\* C10: every ValidationResult returned by validate_context_extraction,
\* validate_scope and validate_rubric, and every ScopeValidation returned by
\* _validate_scope, has passed = TRUE exactly when its issues list is empty,
\* whatever its warnings list holds.
C10_PassedIffNoIssues ==
    /\ ~gate_result.is_none => (gate_result.passed <=> gate_result.issues = <<>>)
    /\ ~validation.is_none => (validation.passed <=> validation.issues = <<>>)

C10_Witness ==
    /\ pc = "scope_checked"
    /\ validation.passed
    /\ validation.issues = <<>>
    /\ Len(validation.warnings) > Len(gate_result.warnings)
    /\ Len(gate_result.warnings) > 0

\* C11: validate_context_extraction fails exactly when there are fewer than
\* 3 responsibilities, or the business domain is empty or whitespace-only, or
\* the daily-technologies list is empty, with one issue per violated
\* condition; a missing collaboration pattern adds a warning and never makes
\* the gate fail.
C11_ContextGateFailsExactlyWhen ==
    pc = "context_checked" =>
        LET few == context.responsibilities < 3
            no_domain == \A k \in 1..Len(context.business_domain) :
                            context.business_domain[k] = " "
            no_tech == context.daily_technologies = 0
            no_collab == context.collaboration_patterns.is_none
                         \/ Len(context.collaboration_patterns.text) = 0
            violated == Cardinality({c \in {"few", "domain", "tech"} :
                            \/ c = "few" /\ few
                            \/ c = "domain" /\ no_domain
                            \/ c = "tech" /\ no_tech})
        IN /\ ~gate_result.passed <=> (few \/ no_domain \/ no_tech)
           /\ Len(gate_result.issues) = violated
           /\ few <=> HasIssue(gate_result, "Insufficient responsibilities extracted")
           /\ no_domain <=> HasIssue(gate_result, "Business domain not identified")
           /\ no_tech <=> HasIssue(gate_result, "Daily technologies not specified")
           /\ no_collab <=> HasWarning(gate_result, "Collaboration patterns not identified")
           /\ Len(gate_result.warnings) = IF no_collab THEN 1 ELSE 0

C11_Witness ==
    /\ pc = "context_checked"
    /\ context.responsibilities = 3
    /\ context.business_domain = <<"x">>
    /\ context.daily_technologies = 1
    /\ context.collaboration_patterns.is_none
    /\ gate_result.passed
    /\ Len(gate_result.warnings) = 1

\* C12: every failure inside phase 1 (the capability call, the parse of its
\* answer or the context gate) leaves generate() as ContextExtractionError,
\* every failure inside phase 4a (call, parse or rubric gate) leaves it as
\* RubricGenerationError, and no other phase produces either kind.
C12_ErrorKindNamesPhase ==
    raised # "none" =>
        LET in_phase1 == calls = <<"phase1">> /\ context.is_none
            in_phase4a == calls = <<"phase1", "phase2", "phase4a">> /\ rubric.is_none
        IN /\ raised = "ContextExtractionError" <=> in_phase1
           /\ raised = "RubricGenerationError" <=> in_phase4a
           /\ (in_phase1 \/ in_phase4a) =>
                cause \in {"GeminiAPIError", "RetryError", "ValidationError", "gate"}

C12_Witness ==
    /\ pc = "done"
    /\ raised = "RubricGenerationError"
    /\ cause = "ValidationError"
    /\ calls = <<"phase1", "phase2", "phase4a">>
    /\ ~context.is_none

\* C13: every generation or parse failure inside phase 2 (scope definition)
\* or phase 4b (time breakdown) leaves generate() as exactly GenerationError,
\* never as one of its subtypes or as another kind.
C13_PlainGenerationError ==
    raised # "none" =>
        LET in_phase2 == calls = <<"phase1", "phase2">> /\ scope.is_none
            in_phase4b == Called("phase4b") /\ time_breakdown.is_none
        IN (in_phase2 \/ in_phase4b) =>
                /\ raised = "GenerationError"
                /\ cause \in {"GeminiAPIError", "RetryError", "ValidationError"}

C13_Witness ==
    /\ pc = "done"
    /\ calls = <<"phase1", "phase2">>
    /\ scope.is_none
    /\ cause = "ValidationError"
    /\ raised = "GenerationError"

C16_ReturnedRubricWellFormed ==
    ~result.is_none =>
        LET items == result.evaluator_guide.scoring_rubric
            n == Len(items)
            sum == SumSeq([i \in 1..n |-> items[i].weight])
        IN /\ 3 <= n /\ n <= 7
           /\ 100 * (sum - WeightUnit) <= WeightUnit
           /\ 100 * (WeightUnit - sum) <= WeightUnit
           /\ \A i \in 1..n :
                /\ items[i].weight > 0
                /\ items[i].weight <= WeightUnit
                /\ \E k \in 1..Len(items[i].scoring_guide) :
                        items[i].scoring_guide[k] # " "

C16_Witness ==
    /\ ~result.is_none
    /\ Len(result.evaluator_guide.scoring_rubric) = 7
    /\ result.evaluator_guide.scoring_rubric[7].junior_expectation = <<>>

\* C17: in phase 4a a rubric with more than 7 items, with a weight below
\* 0.05 or with an empty junior, mid or senior expectation is not blocked:
\* when it has at least 3 items, weights summing to 1.0 within 0.01, only
\* positive weights and no empty scoring guide, phase 4a succeeds and returns
\* the guide.
C17_WarningsDoNotBlockRubric ==
    pc = "rubric_phase_done" =>
        LET n == Len(rubric)
            sum == SumSeq([i \in 1..n |-> rubric[i].weight])
            no_blocking ==
                /\ n >= 3
                /\ 100 * (sum - WeightUnit) <= WeightUnit
                /\ 100 * (WeightUnit - sum) <= WeightUnit
                /\ \A i \in 1..n :
                    /\ rubric[i].weight > 0
                    /\ \E k \in 1..Len(rubric[i].scoring_guide) :
                            rubric[i].scoring_guide[k] # " "
        IN no_blocking =>
                /\ raised = "none"
                /\ ~result.is_none
                /\ result.scoring_rubric = rubric

\* the warnings of the context gate and of the rubric gate for the entities
\* of this request
OtherStageWarnings ==
    validate_context_extraction(context).warnings
    \o validate_rubric(rubric.scoring_rubric).warnings

\* C18 (as stated): scope_warnings of a returned assignment contains the
\* warnings of every stage: the context gate's, the scope validation's and
\* the rubric gate's.
C18_WarningsOfEveryStage ==
    ~result.is_none =>
        /\ \A i \in 1..Len(validation.warnings) :
                \E j \in 1..Len(result.scope_warnings) :
                    result.scope_warnings[j] = validation.warnings[i]
        /\ \A i \in 1..Len(OtherStageWarnings) :
                \E j \in 1..Len(result.scope_warnings) :
                    result.scope_warnings[j] = OtherStageWarnings[i]

\* C18 (amended): scope_warnings of a returned assignment is exactly the
\* warnings list of the scope validation of phase 3 (the scope gate's
\* warnings followed by the scope heuristics' warnings); the warnings of the
\* context gate and of the rubric gate are not part of it.
C18_ScopeWarningsOnly ==
    ~result.is_none =>
        /\ result.scope_warnings = validation.warnings
        /\ \A i \in 1..Len(OtherStageWarnings) :
                \A j \in 1..Len(result.scope_warnings) :
                    result.scope_warnings[j] # OtherStageWarnings[i]

C18_Witness ==
    /\ ~result.is_none
    /\ context.collaboration_patterns.is_none
    /\ Len(validate_rubric(rubric.scoring_rubric).warnings) = 2
    /\ Len(validation.warnings) = 3
    /\ Len(result.scope_warnings) = 3

\* C19: the ScopeValidation returned by _validate_scope has as warnings the
\* warnings of validate_scope followed by the warnings of
\* generate_scope_warnings, and its passed and issues are those of
\* validate_scope alone: a seniority mismatch never turns a passing scope
\* into a failing one.
C19_ScopeValidationComposition ==
    pc = "scope_checked" =>
        LET heuristics == generate_scope_warnings(scope, input.seniority_level,
                                                  input.time_budget)
            n == Len(gate_result.warnings)
        IN /\ Len(validation.warnings) = n + Len(heuristics)
           /\ \A i \in 1..n : validation.warnings[i] = gate_result.warnings[i]
           /\ \A i \in 1..Len(heuristics) : validation.warnings[n + i] = heuristics[i]
           /\ validation.passed = gate_result.passed
           /\ validation.issues = gate_result.issues
           /\ (gate_result.passed
                /\ HasWarning(validation, "Assignment complexity may not match level"))
                => validation.passed

C19_Witness ==
    /\ pc = "scope_checked"
    /\ gate_result.passed
    /\ validation.passed
    /\ Len(gate_result.warnings) = 1
    /\ Len(validation.warnings) > 1
    /\ validation.warnings[2].msg = "Assignment complexity may not match level"

C21_DifficultyLabel ==
    pc = "difficulty_estimated" =>
        LET total == SumSeq(scope.must_have) + SumSeq(scope.nice_to_have)
            count == Len(scope.must_have)
            easy == total <= 180 /\ count <= 4
            hard == total >= 360 \/ count >= 6
        IN /\ ~(easy /\ hard)
           /\ result.difficulty = "easy" <=> easy
           /\ result.difficulty = "hard" <=> hard
           /\ result.difficulty = "medium" <=> (~easy /\ ~hard)
           /\ result.difficulty \in {"easy", "medium", "hard"}

C21_Witness ==
    /\ pc = "difficulty_estimated"
    /\ SumSeq(scope.must_have) + SumSeq(scope.nice_to_have) = 180
    /\ Len(scope.must_have) = 4
    /\ result.difficulty = "easy"

\* C22: the validate operation performs phases 1, 2 and 3 in that order and
\* nothing else: it makes at most two capability calls, never a rubric or a
\* time-breakdown call, and it answers with the scope validation as a value,
\* passed = false with its issues included, instead of raising
\* ScopeValidationError.
C22_ValidateRunsThreePhases ==
    \A i \in DOMAIN requests :
        LET req == requests[i] IN
        req.operation = "validate" =>
            /\ req.pc \in {"phase1", "phase2", "phase3", "done"}
            /\ IsPrefix(req.calls, <<"phase1", "phase2">>)
            /\ req.rubric.is_none /\ req.time_breakdown.is_none
            /\ req.raised # "ScopeValidationError"
            /\ ~req.scope.is_none => ~req.context.is_none
            /\ ~req.validation.is_none =>
                    /\ ~req.scope.is_none
                    /\ req.pc = "done"
                    /\ req.raised = "none"
                    /\ req.http_status = 200
                    /\ req.result.passed = req.validation.passed
                    /\ req.result.issues = req.validation.issues
                    /\ req.result.warnings = req.validation.warnings
            /\ (req.pc = "done" /\ req.raised = "none") => ~req.validation.is_none

C22_Witness ==
    \E i \in DOMAIN requests :
        /\ requests[i].operation = "validate"
        /\ requests[i].pc = "done"
        /\ requests[i].calls = <<"phase1", "phase2">>
        /\ ~requests[i].result.is_none
        /\ ~requests[i].result.passed
        /\ Len(requests[i].result.issues) > 0
        /\ requests[i].http_status = 200

\* C23: in every interleaving of the steps of two requests that share the
\* cached client, a step of one request leaves the other request's state
\* untouched and moves its own request exactly as it would with the same
\* capability outcome had the other request never started: the outcome of a
\* request depends only on its own input and on the answers it received.
C23_RequestsIndependent ==
    [][\A i \in RequestIds :
        requests'[i] # requests[i] =>
            /\ requests'[3 - i] = requests[3 - i]
            /\ \E o \in RequestOutcomes(requests[i].pc) \cup {LocalStep} :
                    requests'[i] =
                        RequestStep(requests[i],
                                    InitRequest(requests[3 - i].operation,
                                                requests[3 - i].input),
                                    o)]_vars

C23_Witness ==
    /\ requests[1].input # requests[2].input
    /\ requests[1].pc = "done"
    /\ requests[1].call_status = "RetryError"
    /\ requests[1].calls = <<"phase1", "phase2">>
    /\ requests[2].operation = "generate"
    /\ requests[2].call_status = "running"
    /\ Len(requests[2].attempts) = 2
    /\ requests[2].calls = <<"phase1", "phase2", "phase4a">>

\* C24: constructing an AssignmentInput with a job description shorter than
\* 500 characters is rejected with a validation error.
C24_ShortDescriptionRejected ==
    (pc = "input_constructed" /\ input.job_description < 500)
        => raised = "ValidationError"

\* C25: an AssignmentInput is accepted only when its time budget lies in
\* [2.0, 8.0] hours inclusive; a budget below 2.0 or above 8.0 is rejected at
\* construction, so the budget of an accepted input is strictly positive and
\* the divisor time_budget_hours * 60 of validate_scope is never zero.
C25_BudgetInRange ==
    pc = "input_constructed" =>
        /\ raised = "none" =>
                /\ 4 * 2 <= input.time_budget /\ input.time_budget <= 4 * 8
                /\ input.time_budget > 0
                /\ expected_minutes(input.time_budget) # 0
        /\ (input.time_budget < 4 * 2 \/ input.time_budget > 4 * 8)
                => raised = "ValidationError"
        /\ raised \in {"none", "ValidationError"}

C25_Witness ==
    /\ pc = "input_constructed"
    /\ input.time_budget = 4 * 8
    /\ input.job_description = 500
    /\ raised = "none"

C27_FlagWithinFiveInclusive ==
    ~time_breakdown.is_none =>
        LET sum == time_breakdown.setup_minutes
                   + time_breakdown.core_implementation_minutes
                   + time_breakdown.testing_minutes
                   + time_breakdown.documentation_minutes
                   + time_breakdown.buffer_minutes
        IN time_breakdown.breakdown_valid <=>
                (time_breakdown.total_minutes - sum <= 5
                 /\ sum - time_breakdown.total_minutes <= 5)

\* C28: every scope that passed the scope validation can be assembled: once
\* phase 3 passed and phases 4a and 4b succeeded, _assemble_assignment
\* succeeds and generate() returns an assignment, also for a scope with more
\* than 7 must-haves or a business context longer than 2000 characters,
\* whose warnings the assignment then carries.
C28_ValidatedScopeAssembles ==
    (/\ pc = "done"
     /\ ~validation.is_none /\ validation.passed
     /\ ~rubric.is_none
     /\ ~time_breakdown.is_none) =>
        /\ raised = "none"
        /\ ~result.is_none
        /\ result.scope_warnings = validation.warnings

\* C29: the validate route and generate() agree on the scope gate: for the
\* same input and the same phase 1 and phase 2 answers, the validation the
\* route returns has passed true exactly when generate() went on past
\* phase 3 without a ScopeValidationError, and carries the issues and
\* warnings of generate()'s own validation.
C29_ValidateAgreesWithGenerate ==
    pc = "requests" =>
        LET g == requests[1]
            v == requests[2]
        IN (/\ g.operation = "generate" /\ v.operation = "validate"
            /\ g.input = v.input
            /\ ~g.context.is_none /\ g.context = v.context
            /\ ~g.scope.is_none /\ g.scope = v.scope
            /\ ~g.validation.is_none
            /\ ~v.result.is_none) =>
               /\ v.result.passed <=> g.raised # "ScopeValidationError"
               /\ v.result.passed <=> Len(g.calls) > 2 \/ g.pc \in {"phase4a", "phase4b"}
               /\ v.result.issues = g.validation.issues
               /\ v.result.warnings = g.validation.warnings
               /\ v.http_status = 200

C29_Witness ==
    /\ pc = "requests"
    /\ requests[1].operation = "generate" /\ requests[2].operation = "validate"
    /\ requests[1].input = requests[2].input
    /\ ~requests[1].scope.is_none /\ requests[1].scope = requests[2].scope
    /\ requests[1].context = requests[2].context
    /\ ~requests[2].result.is_none /\ ~requests[2].result.passed
    /\ Len(requests[2].result.warnings) > 0
    /\ requests[1].raised = "ScopeValidationError"

====
